---- MODULE Spec2Model ----
(***************************************************************************)
(* Model of the trust-region nonlinear least-squares driver                *)
(* (multilarge_nlinear/trust.c): trust_init, trust_iterate and the helpers *)
(* trust_trial_step, trust_calc_rho, trust_eval_step, trust_scaled_norm.   *)
(*                                                                         *)
(* Doubles are modelled as exact rationals <<num, den>> in lowest terms    *)
(* with den > 0; vectors of doubles whose entries stay integral (x, f, g,  *)
(* dx, diag) are sequences of integers.  Rounding, NaN and underflow of    *)
(* IEEE arithmetic are outside the model.                                  *)
(***************************************************************************)
EXTENDS Integers, Sequences, FiniteSets, TLC

(***************************************************************************)
(* Bounds of the model.                                                    *)
(***************************************************************************)
\* trust_iterate calls made on one solver instance in a run
MaxCalls == 2
\* loop passes (trial attempts) made over all calls of a run
MaxAttempts == 17
\* loop passes made over all calls of a run under the lmaccel variant, whose
\* steps also vary in the ratio they store
MaxAccelAttempts == 3
\* failing returns of the user callbacks and of trs->init / trs->preloop
\* in a run
MaxFaults == 1
\* trust_iterate calls and loop passes of a run whose radius stays put
\* (factor_down = 1), which can be followed through many rejections
MaxLongCalls == 4
MaxLongAttempts == 64
MaxNullAttempts == 3

(***************************************************************************)
(* Program constants.                                                      *)
(***************************************************************************)
GSL_SUCCESS == 0
GSL_FAILURE == -1
GSL_ENOPROG == 27
\* status a failing user callback hands back (any nonzero status other than
\* the driver's own GSL_ENOPROG; the value stands for all of them)
GSL_EBADFUNC == 9
\* "if (++bad_steps > 15)"
MAX_BAD_STEPS == 15
NULL == << >>
\* "long nu" (LP64): 64 bits, held as four limbs of 16 bits
LONG_LIMBS == 4

(***************************************************************************)
(* Exact rational arithmetic standing for the double operations.           *)
(***************************************************************************)
Abs(a) == IF a < 0 THEN -a ELSE a

RECURSIVE GCD(_, _)
GCD(a, b) == IF b = 0 THEN a ELSE GCD(b, a % b)

\* the rational n/d in lowest terms, d # 0
Rat(n, d) ==
    LET k == GCD(Abs(n), Abs(d))
        s == IF d < 0 THEN -1 ELSE 1
    IN  << s * (n \div k), s * (d \div k) >>

\* products and quotients cancel crosswise first, so no intermediate value
\* is larger than the result
RMul(a, b) ==
    LET k1 == GCD(Abs(a[1]), b[2])
        k2 == GCD(Abs(b[1]), a[2])
    IN  IF a[1] = 0 \/ b[1] = 0 THEN << 0, 1 >>
        ELSE << (a[1] \div k1) * (b[1] \div k2), (a[2] \div k2) * (b[2] \div k1) >>

RInv(a) == IF a[1] < 0 THEN << -a[2], -a[1] >> ELSE << a[2], a[1] >>
RDiv(a, b) == RMul(a, RInv(b))
RSub(a, b) == Rat(a[1] * b[2] - b[1] * a[2], a[2] * b[2])
RLess(a, b) == a[1] * b[2] < b[1] * a[2]
RLeq(a, b) == a[1] * b[2] <= b[1] * a[2]
RPos(a) == a[1] > 0
\* GSL_MAX(a, b) is ((a) > (b) ? (a) : (b))
GSL_MAX(a, b) == IF RLess(b, a) THEN a ELSE b

Zero == << 0, 1 >>
One == << 1, 1 >>
MinusOne == << -1, 1 >>

\* sqrt of a perfect square (the inputs of the model keep it exact)
Sqrt(n) == CHOOSE r \in 0 .. n : r * r = n

(***************************************************************************)
(* The user's problem (fdf) and the pluggable strategies, which the driver *)
(* only calls.  The residual is f(x) = (x1 - 1, x2^2), n = p = 2, so       *)
(* J = [[1, 0], [0, 2 x2]], diag(J^T J) = (1, 4 x2^2) and g = J^T f.       *)
(***************************************************************************)
UserF(v) == << v[1] - 1, v[2] * v[2] >>
UserJTJ(v) == << 1, 4 * v[2] * v[2] >>
UserG(v) == << v[1] - 1, 2 * v[2] * v[2] * v[2] >>

\* starting points x0 handed to trust_init
X0Set == { << 0, 1 >>, << 0, -1 >> }
\* steps dx a step of the TRS variant may propose (the Steihaug variant is
\* followed only through passes in which it finds no step)
DxSet(trs) == IF trs = "cgst" THEN { }
              ELSE { << 0, 0 >>, << 1, -1 >> }
\* predicted reductions a TRS preduction may report
PredSet == { << 0, 1 >>, << 10, 9 >>, << 4, 3 >>, << 4, 1 >>, << 10, 1 >> }
\* |a| / |v| ratios a step of the TRS variant may store through
\* trust_state.avratio
AvratioSet(trs) ==
    IF trs = "lmaccel" THEN { << 3, 10 >>, << 1, 2 >>, << 7, 10 >> }
    ELSE IF trs = "dogleg" THEN { << 7, 10 >> }
    ELSE { << 0, 1 >> }
\* tunable parameters copied by trust_alloc
ParamSet ==
    { [trs |-> "lm", scale |-> "levenberg", factor_up |-> << 2, 1 >>,
       factor_down |-> << 3, 1 >>, avmax |-> << 3, 4 >>, solver |-> "cholesky"],
      [trs |-> "lmaccel", scale |-> "marquardt", factor_up |-> << 2, 1 >>,
       factor_down |-> << 2, 1 >>, avmax |-> << 1, 2 >>, solver |-> "cholesky"],
      [trs |-> "dogleg", scale |-> "none", factor_up |-> << 3, 1 >>,
       factor_down |-> << 2, 1 >>, avmax |-> << 1, 2 >>, solver |-> "cholesky"],
      [trs |-> "cgst", scale |-> "levenberg", factor_up |-> << 2, 1 >>,
       factor_down |-> << 1, 1 >>, avmax |-> << 3, 4 >>, solver |-> "none"] }

\* squared Euclidean norm; gsl_blas_dnrm2 is its square root, and the
\* driver only compares two norms and divides one by the other
Nrm2Sq(v) == v[1] * v[1] + v[2] * v[2]

(***************************************************************************)
(* Scaling policy and Nielsen damping controller.                          *)
(***************************************************************************)
\* scale->init(JTJ, diag)
scale_init(scale, jtj) ==
    IF scale = "none" THEN [i \in 1 .. Len(jtj) |-> 1]
    ELSE [i \in 1 .. Len(jtj) |-> Sqrt(jtj[i])]

\* scale->update(JTJ, diag)
scale_update(scale, jtj, D) ==
    IF scale = "none" THEN [i \in 1 .. Len(jtj) |-> 1]
    ELSE IF scale = "marquardt" THEN [i \in 1 .. Len(jtj) |-> Sqrt(jtj[i])]
    ELSE [i \in 1 .. Len(jtj) |->
             IF Sqrt(jtj[i]) > D[i] THEN Sqrt(jtj[i]) ELSE D[i]]

\* mu is held as m * 2^e with m rational: sixteen rejections multiply it
\* by 2^152
MuVal(m, e) == [m |-> m, e |-> e]

\* a long is its two's-complement bit pattern in LONG_LIMBS limbs of 16
\* bits, limb 1 the lowest; Long(k) is the long holding k, 0 <= k < 2^16
Long(k) == [i \in 1 .. LONG_LIMBS |-> IF i = 1 THEN k ELSE 0]
LongNegative(n) == n[LONG_LIMBS] >= 32768
\* whether 2 * n is outside the range of long: the two top bits differ
LongTimes2Overflows(n) ==
    (n[LONG_LIMBS] \div 32768) # ((n[LONG_LIMBS] \div 16384) % 2)
\* 2 * n, wrapped to the width of long when it overflows
LongTimes2(n) ==
    [i \in 1 .. LONG_LIMBS |->
        (2 * n[i] + (IF i = 1 THEN 0 ELSE n[i - 1] \div 32768)) % 65536]

RECURSIVE TrailingZeros(_)
TrailingZeros(k) == IF k % 2 = 1 THEN 0 ELSE 1 + TrailingZeros(k \div 2)

RECURSIVE LongFrom(_, _)
\* the signed value of limbs i .. LONG_LIMBS of n
LongFrom(n, i) ==
    IF i = LONG_LIMBS
    THEN (IF LongNegative(n) THEN n[i] - 65536 ELSE n[i])
    ELSE n[i] + 65536 * LongFrom(n, i + 1)

\* the double mu times (double) n: n is odd * 2^lo
TimesLong(mu, n) ==
    IF \A i \in 1 .. LONG_LIMBS : n[i] = 0 THEN MuVal(Zero, 0)
    ELSE LET low == CHOOSE i \in 1 .. LONG_LIMBS :
                        n[i] # 0 /\ \A j \in 1 .. (i - 1) : n[j] = 0
             t == TrailingZeros(n[low])
         IN  MuVal(RMul(mu.m, << LongFrom(n, low) \div (2 ^ t), 1 >>),
                   mu.e + 16 * (low - 1) + t)

\* tau of the damping controller
TAU == << 1, 1000 >>
ONE_THIRD == << 1, 3 >>

\* mu0 = tau * max_i (JTJ_ii / D_i^2), nu0 = 2; without a JTJ the diagonal
\* is taken to be that of the identity (D is all ones then): mu0 = tau
nielsen_init(jtj, D) ==
    LET val(i) == Rat(jtj[i], D[i] * D[i])
    IN  IF jtj = NULL THEN << MuVal(TAU, 0), Long(2) >>
        ELSE << MuVal(RMul(TAU, GSL_MAX(val(1), val(2))), 0), Long(2) >>

\* mu <- mu * max(1/3, 1 - (2 rho - 1)^3), nu <- 2
nielsen_accept(r, mu, nu) ==
    LET b == RSub(RMul(<< 2, 1 >>, r), One)
        c == RSub(One, RMul(b, RMul(b, b)))
    IN  << MuVal(RMul(mu.m, GSL_MAX(ONE_THIRD, c)), mu.e), Long(2) >>

\* mu <- mu * nu, nu <- 2 nu
nielsen_reject(mu, nu) == << TimesLong(mu, nu), LongTimes2(nu) >>
\* 2 nu outside the range of long is undefined: the build either wraps it
\* or traps (trapping arithmetic, sanitizer)
OverflowOutcomes(nu) ==
    IF LongTimes2Overflows(nu) THEN { "wrap", "trap" } ELSE { "none" }

(***************************************************************************)
(* Helpers of the driver.                                                  *)
(***************************************************************************)
\* mutant: the trial point is the step itself
trust_trial_step_StepOnly(v, d) == d
\* compute x_trial = x + dx
trust_trial_step(v, d) == [i \in 1 .. Len(v) |-> v[i] + d[i]]

\* compute || diag(D) a ||
trust_scaled_norm(D, a) ==
    LET u(i) == D[i] * a[i]
    IN  Sqrt(u(1) * u(1) + u(2) * u(2))

\* mutant: an equal trial residual is not caught by the early return
NoDecrease_Strict(fv, ft) == Nrm2Sq(ft) > Nrm2Sq(fv)
\* whether trust_calc_rho returns before it asks the TRS for the predicted
\* reduction: "if (normf_trial >= normf) return -1.0"
NoDecrease(fv, ft) == Nrm2Sq(ft) >= Nrm2Sq(fv)

\* mutant: the actual reduction is not divided by the predicted one
trust_calc_rho_Undivided(fv, ft, pstat, pred) ==
    IF NoDecrease(fv, ft) THEN MinusOne
    ELSE IF pstat # GSL_SUCCESS THEN MinusOne
    ELSE IF RPos(pred) THEN RSub(One, Rat(Nrm2Sq(ft), Nrm2Sq(fv)))
    ELSE MinusOne
\* rho = actual_reduction / pred_reduction, or -1; pstat and pred are what
\* trs->preduction returns (used only when it is called)
trust_calc_rho(fv, ft, pstat, pred) ==
    IF NoDecrease(fv, ft) THEN MinusOne
    ELSE LET actual_reduction == RSub(One, Rat(Nrm2Sq(ft), Nrm2Sq(fv)))
         IN  IF pstat # GSL_SUCCESS THEN MinusOne
             ELSE IF RPos(pred) THEN RDiv(actual_reduction, pred)
             ELSE MinusOne

\* mutant: the gate does not look at the TRS variant
AccelVeto_AnyVariant(par, av) == RLess(par.avmax, av)
\* the lmaccel gate of trust_eval_step
AccelVeto(par, av) == par.trs = "lmaccel" /\ RLess(par.avmax, av)

\* mutant: the test of rho is missing, only the lmaccel gate decides
trust_eval_step_NoRhoTest(par, av, r) ==
    IF AccelVeto(par, av) THEN GSL_FAILURE ELSE GSL_SUCCESS
\* status of trust_eval_step, given the rho it computed
trust_eval_step(par, av, r) ==
    IF RLeq(r, Zero) THEN GSL_FAILURE
    ELSE IF AccelVeto(par, av) THEN GSL_FAILURE
    ELSE GSL_SUCCESS

\* mutant: the thresholds are inclusive
radius_update_Inclusive(d, r, par) ==
    IF RLeq(<< 3, 4 >>, r) THEN RMul(d, par.factor_up)
    ELSE IF RLeq(r, << 1, 4 >>) THEN RDiv(d, par.factor_down)
    ELSE d
\* mutant: the radius is shrunk by subtracting factor_down
radius_update_Subtract(d, r, par) ==
    IF RLess(<< 3, 4 >>, r) THEN RMul(d, par.factor_up)
    ELSE IF RLess(r, << 1, 4 >>) THEN RSub(d, par.factor_down)
    ELSE d
\* update trust region radius
radius_update(d, r, par) ==
    IF RLess(<< 3, 4 >>, r) THEN RMul(d, par.factor_up)
    ELSE IF RLess(r, << 1, 4 >>) THEN RDiv(d, par.factor_down)
    ELSE d

\* mutant: the radius update sits inside the accept / reject branches, an
\* accepted step can only enlarge the radius and a rejected one shrinks it
RadiusAfterPass_ByOutcome(found, d, r, par) ==
    IF found = 1
    THEN (IF RLess(<< 3, 4 >>, r) THEN RMul(d, par.factor_up) ELSE d)
    ELSE RDiv(d, par.factor_down)
\* the radius update stands before "if (foundstep)" and does not read it
RadiusAfterPass(found, d, r, par) == radius_update(d, r, par)

\* mutant: without a JTJ the vector is left as it was allocated
ScaleAtInit_NoElse(scale, jtj, D) ==
    IF jtj # NULL THEN scale_init(scale, jtj) ELSE D
\* "if (JTJ != NULL) (params->scale->init)(JTJ, state->diag); else
\* gsl_vector_set_all(state->diag, 1.0)"
ScaleAtInit(scale, jtj, D) ==
    IF jtj # NULL THEN scale_init(scale, jtj) ELSE [i \in 1 .. Len(D) |-> 1]

\* JTJ after gsl_multilarge_nlinear_eval_df(..., g, JTJ, workn) at v: the
\* caller's JTJ is written when there is one
EvalJTJ(jtj, v) == IF jtj # NULL THEN UserJTJ(v) ELSE NULL

\* mutant: the scaling matrix is derived afresh after an accepted step
ScaleAfterAccept_Init(scale, jtj, D) ==
    IF jtj # NULL THEN scale_init(scale, jtj) ELSE D
\* "if (JTJ != NULL) (params->scale->update)(JTJ, state->diag)"
ScaleAfterAccept(scale, jtj, D) ==
    IF jtj # NULL THEN scale_update(scale, jtj, D) ELSE D

\* mutant: a failing Jacobian evaluation skips the update of mu but still
\* resets nu
DampingAfterAccept_ResetNu(dfst, r, mu, nu) ==
    IF dfst # GSL_SUCCESS THEN << mu, Long(2) >> ELSE nielsen_accept(r, mu, nu)
\* mutant: the damping update of an accepted step is made before the
\* Jacobian is evaluated
DampingAfterAccept_Early(dfst, r, mu, nu) == nielsen_accept(r, mu, nu)
\* nielsen_accept comes after "status = gsl_multilarge_nlinear_eval_df(...);
\* if (status) return status": << mu, nu >> after an accepted step
DampingAfterAccept(dfst, r, mu, nu) ==
    IF dfst # GSL_SUCCESS THEN << mu, nu >> ELSE nielsen_accept(r, mu, nu)

\* mutant: the threshold test off by one
TooManyBadSteps_AtFifteen(bad) == bad >= MAX_BAD_STEPS
\* mutant: the threshold test off by one the other way
TooManyBadSteps_Late(bad) == bad > MAX_BAD_STEPS + 1
\* "if (++bad_steps > 15)"
TooManyBadSteps(bad) == bad > MAX_BAD_STEPS

\* mutant: the trial buffer is copied over whether or not a step was found
Commit_Always(found, old, trial) == trial
\* "if (foundstep) { gsl_vector_memcpy(x, x_trial); ... }": the caller's
\* vector after the pass
Commit(found, old, trial) == IF found = 1 THEN trial ELSE old

(***************************************************************************)
(* State.                                                                  *)
(***************************************************************************)
VARIABLES
    params,      \* the caller's parameters; state->params, copied by trust_alloc
    heap,        \* the allocations trust_alloc made that are still live
    pc,          \* "new": before trust_alloc; "null": trust_alloc returned NULL;
                 \* "alloc": allocated; "ready": initialised, between calls;
                 \* "loop": inside the while loop of trust_iterate;
                 \* "abort": the process was stopped by an arithmetic trap
    x, f, g, JTJ, dx,                  \* the caller's vectors (JTJ: its diagonal)
    delta, mu, nu, diag, x_trial, f_trial, avratio,      \* trust_state_t
    rho, foundstep, bad_steps,         \* locals of trust_iterate
    ret,         \* status returned by the last trust_init / trust_iterate
    stage,       \* the step at which the last trust_init returned: "eval_f",
                 \* "eval_df", "trs_init" (errors) or "done"; "none" before
    calls,       \* trust_iterate calls entered so far
    preloops,    \* trs->preloop invocations of the current call
    steps,       \* trs->step invocations of the current call
    faults,      \* failing callback returns so far
    attempts,    \* loop passes made so far, over all calls
    entry,       \* x, f and delta as they were when the current call was entered
    att,         \* what the last loop pass did
    call_rejects,  \* trial steps rejected so far in the current call
    run_rejects,   \* trial steps rejected since the last accepted one (or init)
    since,         \* the mu the damping controller last set together with
                   \* nu = 2, and the rejections (damping rejects) since then
    sf,            \* the last call of a factorial function of specfunc/gamma.c:
                   \* its arguments, its status and the caller's *result
    all_minus_one  \* every loop pass of the current call ended with rho = -1

trust_vars ==
    << params, heap, pc, x, f, g, JTJ, dx, delta, mu, nu, diag, x_trial, f_trial,
       avratio, rho, foundstep, bad_steps, ret, stage, calls, preloops, steps,
       faults, attempts, entry, att, call_rejects, run_rejects,
       all_minus_one, since >>

vars == << params, heap, pc, x, f, g, JTJ, dx, delta, mu, nu, diag, x_trial, f_trial,
           avratio, rho, foundstep, bad_steps, ret, stage, calls, preloops, steps,
           faults, attempts, entry, att, call_rejects, run_rejects,
           all_minus_one, since, sf >>

ZeroVec == << 0, 0 >>
NoAttempt ==
    [kind |-> "none", pcalled |-> FALSE, pstat |-> GSL_SUCCESS, pred |-> Zero,
     delta_pre |-> Zero]

\* no factorial function called yet; the caller's *result holds 0
NoSfCall ==
    LET slot == << "val", "exact", << 0, 1 >>, "0.0" >>
    IN  [fn |-> "none", n |-> 0, m |-> 0, status |-> GSL_SUCCESS,
         before |-> slot, result |-> slot]

\* the JTJ the caller passes to trust_init and trust_iterate: a matrix, or
\* NULL when JTJ is not materialised
JTJArgs(par) ==
    IF par.trs \in { "lm", "lmaccel" } THEN { ZeroVec, NULL } ELSE { ZeroVec }

\* before construction; the fields already hold what calloc and
\* "state->delta = 0.0" give them
Init ==
    /\ params \in ParamSet
    /\ heap = { }
    /\ pc = "new"
    /\ x = ZeroVec /\ f = ZeroVec /\ g = ZeroVec /\ dx = ZeroVec
    /\ JTJ \in JTJArgs(params)
    /\ delta = Zero /\ mu = MuVal(Zero, 0) /\ nu = Long(0)
    /\ diag = ZeroVec /\ x_trial = ZeroVec /\ f_trial = ZeroVec /\ avratio = Zero
    /\ rho = Zero /\ foundstep = 0 /\ bad_steps = 0
    /\ ret = GSL_SUCCESS /\ stage = "none"
    /\ calls = 0 /\ preloops = 0 /\ steps = 0 /\ faults = 0 /\ attempts = 0
    /\ entry = [x |-> ZeroVec, f |-> ZeroVec, delta |-> Zero]
    /\ att = NoAttempt
    /\ call_rejects = 0 /\ run_rejects = 0 /\ all_minus_one = TRUE
    /\ since = [mu |-> MuVal(Zero, 0), k |-> 0]
    /\ sf = NoSfCall

\* statuses a callback (user residual, user Jacobian, trs->init,
\* trs->preloop) may return
CallbackStatus == IF faults < MaxFaults THEN { GSL_SUCCESS, GSL_EBADFUNC }
                  ELSE { GSL_SUCCESS }
\* whether the run may make another loop pass
MayAttempt ==
    attempts < (IF JTJ = NULL THEN MaxNullAttempts
                ELSE IF params.trs = "lmaccel" THEN MaxAccelAttempts
                ELSE IF params.factor_down = One THEN MaxLongAttempts
                ELSE MaxAttempts)
\* whether the run may enter another trust_iterate call
MayCall ==
    calls < (IF params.factor_down = One THEN MaxLongCalls ELSE MaxCalls)
\* the failing returns among sts
Failed(sts) == Cardinality({ i \in 1 .. Len(sts) : sts[i] # GSL_SUCCESS })

(***************************************************************************)
(* trust_alloc                                                             *)
(***************************************************************************)
\* the allocations of trust_alloc in the order it makes them; the linear
\* solver state only "if (params->solver != gsl_multilarge_nlinear_solver_none)"
AllocOrder(par) ==
    << "state", "diag", "workn", "x_trial", "f_trial", "trs_state" >>
        \o (IF par.solver # "none" THEN << "solver_state" >> ELSE << >>)

\* what trust_alloc frees before it returns NULL, given what it owns: each
\* failure path is GSL_ERROR_NULL alone (the error handler is taken to
\* return), no free precedes it
FreedOnFailure(owned) == { }

\* trust_alloc whose k-th allocation fails (k = 0: none fails)
trust_alloc(k) ==
    /\ pc = "new"
    /\ LET order == AllocOrder(params)
           owned == { order[i] : i \in 1 .. (IF k = 0 THEN Len(order) ELSE k - 1) }
       IN  IF k = 0
           THEN heap' = owned /\ pc' = "alloc"
           ELSE heap' = owned \ FreedOnFailure(owned) /\ pc' = "null"
    /\ UNCHANGED << sf, params, x, f, g, JTJ, dx, delta, mu, nu, diag, x_trial,
                    f_trial, avratio, rho, foundstep, bad_steps, ret, stage,
                    calls, preloops, steps, faults, attempts, entry, att,
                    call_rejects, run_rejects, all_minus_one, since >>

(***************************************************************************)
(* trust_init                                                              *)
(***************************************************************************)
\* mutant: the radius is computed before the scaling matrix is initialised
RadiusScale_Stale(old, fresh) == old
\* "Dx = trust_scaled_norm(state->diag, x)" comes after the scale init: the
\* D it reads
RadiusScale(old, fresh) == fresh

\* mutant: the residual is evaluated into a scratch vector and copied to f
\* only when the whole initialisation succeeds
EvalFInto_Scratch(old, new, ok) == IF ok THEN new ELSE old
\* gsl_multilarge_nlinear_eval_f(fdf, x, swts, f) writes the caller's f,
\* whether or not (ok) the steps after it succeed
EvalFInto(old, new, ok) == new

trust_init(x0, fst, dfst, tst) ==
    /\ pc = "alloc"
    /\ Failed(<< fst, dfst, tst >>) <= 1
    /\ (fst # GSL_SUCCESS => dfst = GSL_SUCCESS)
    /\ faults' = faults + Failed(<< fst, dfst, tst >>)
    /\ x' = x0
    /\ LET D == ScaleAtInit(params.scale, JTJ', diag)
           Dx == trust_scaled_norm(RadiusScale(diag, D), x0)
           mn == nielsen_init(JTJ', D)
       IN  IF fst # GSL_SUCCESS
           THEN /\ ret' = fst /\ stage' = "eval_f"
                /\ UNCHANGED << f, g, JTJ, diag, delta, mu, nu, avratio, pc,
                                since >>
           ELSE IF dfst # GSL_SUCCESS
           THEN /\ ret' = dfst /\ stage' = "eval_df"
                /\ f' = EvalFInto(f, UserF(x0), FALSE)
                /\ UNCHANGED << g, JTJ, diag, delta, mu, nu, avratio, pc,
                                since >>
           ELSE /\ f' = EvalFInto(f, UserF(x0), tst = GSL_SUCCESS)
                /\ g' = UserG(x0)
                /\ JTJ' = EvalJTJ(JTJ, x0)
                /\ diag' = D
                /\ delta' = RMul(<< 3, 10 >>, GSL_MAX(One, << Dx, 1 >>))
                /\ mu' = mn[1]
                /\ nu' = mn[2]
                /\ since' = [mu |-> mn[1], k |-> 0]
                /\ IF tst # GSL_SUCCESS
                   THEN /\ ret' = tst /\ stage' = "trs_init"
                        /\ UNCHANGED << avratio, pc >>
                   ELSE /\ ret' = GSL_SUCCESS /\ stage' = "done"
                        /\ avratio' = Zero /\ pc' = "ready"
    /\ run_rejects' = 0
    /\ UNCHANGED << sf, params, heap, dx, x_trial, f_trial, rho, foundstep,
                    bad_steps, calls, preloops, steps, attempts, entry, att,
                    call_rejects, all_minus_one >>

(***************************************************************************)
(* trust_iterate: entry up to the while loop (trs->preloop)                *)
(***************************************************************************)
\* mutant: the counter belongs to the solver instance and survives a return
EntryBadSteps_Kept == bad_steps
\* "int bad_steps = 0": the counter a call starts with
EntryBadSteps == 0

trust_iterate_enter(pst) ==
    /\ pc = "ready"
    /\ MayCall
    /\ calls' = calls + 1
    /\ preloops' = 1
    /\ steps' = 0
    /\ foundstep' = 0
    /\ bad_steps' = EntryBadSteps
    /\ entry' = [x |-> x, f |-> f, delta |-> delta]
    /\ att' = NoAttempt
    /\ call_rejects' = 0
    /\ all_minus_one' = TRUE
    /\ faults' = faults + Failed(<< pst >>)
    /\ IF pst # GSL_SUCCESS
       THEN ret' = pst /\ pc' = "ready"
       ELSE ret' = ret /\ pc' = "loop"
    /\ UNCHANGED << sf, params, heap, x, f, g, JTJ, dx, delta, mu, nu, diag, x_trial,
                    f_trial, avratio, rho, attempts, run_rejects, stage,
                    since >>

(***************************************************************************)
(* trust_iterate: one pass of the while loop                               *)
(***************************************************************************)
\* from the radius update to the end of the loop body, given the rho and
\* the foundstep of this pass, the trial buffers, and the status dfst the
\* Jacobian evaluation returns if the step is accepted
LoopTail(r, found, xt, ft, dfst, a) ==
    /\ rho' = r
    /\ foundstep' = found
    /\ delta' = RadiusAfterPass(found, delta, r, params)
    /\ all_minus_one' = (all_minus_one /\ r = MinusOne)
    /\ IF found = 1
       THEN /\ x' = Commit(found, x, xt)
            /\ f' = Commit(found, f, ft)
            /\ run_rejects' = 0
            /\ UNCHANGED call_rejects
            /\ pc' = "ready"
            /\ att' = a
            /\ IF dfst # GSL_SUCCESS
               THEN /\ ret' = dfst
                    /\ mu' = DampingAfterAccept(dfst, r, mu, nu)[1]
                    /\ nu' = DampingAfterAccept(dfst, r, mu, nu)[2]
                    /\ UNCHANGED << g, JTJ, diag, bad_steps, since >>
               ELSE /\ g' = UserG(xt)
                    /\ JTJ' = EvalJTJ(JTJ, xt)
                    /\ diag' = ScaleAfterAccept(params.scale, JTJ', diag)
                    /\ mu' = DampingAfterAccept(dfst, r, mu, nu)[1]
                    /\ nu' = DampingAfterAccept(dfst, r, mu, nu)[2]
                    /\ since' = [mu |-> mu', k |-> 0]
                    /\ bad_steps' = 0
                    /\ ret' = GSL_SUCCESS
       ELSE /\ mu' = nielsen_reject(mu, nu)[1]
            /\ x' = Commit(found, x, xt)
            /\ f' = Commit(found, f, ft)
            /\ UNCHANGED << g, JTJ, diag >>
            /\ \E o \in OverflowOutcomes(nu) :
                  IF o = "trap"
                  THEN /\ pc' = "abort"
                       /\ att' = [a EXCEPT !.kind = "aborted"]
                       /\ UNCHANGED << nu, bad_steps, call_rejects,
                                       run_rejects, ret, since >>
                  ELSE /\ nu' = nielsen_reject(mu, nu)[2]
                       /\ att' = a
                       /\ bad_steps' = bad_steps + 1
                       /\ call_rejects' = call_rejects + 1
                       /\ run_rejects' = run_rejects + 1
                       /\ since' = [since EXCEPT !.k = @ + 1]
                       /\ IF TooManyBadSteps(bad_steps')
                          THEN ret' = GSL_ENOPROG /\ pc' = "ready"
                          ELSE ret' = ret /\ pc' = "loop"

\* mutant: trs->preloop is called inside the while loop, once per pass
PreloopsAfterPass_PerPass(n) == n + 1
\* trs->preloop is called before the while loop, a pass does not call it
PreloopsAfterPass(n) == n

\* mutant: rho keeps the value of the pass before
StepFailedRho_Stale == rho
\* "an iterative TRS method failed to find a step vector: rho = -1.0"
StepFailedRho == MinusOne

\* trs->step fails: rho = -1, no trial evaluation
LoopStepFailed ==
    /\ pc = "loop"
    /\ MayAttempt
    /\ attempts' = attempts + 1
    /\ steps' = steps + 1
    /\ preloops' = PreloopsAfterPass(preloops)
    /\ LoopTail(StepFailedRho, foundstep, x_trial, f_trial, GSL_SUCCESS,
                [NoAttempt EXCEPT !.kind = "step_failed", !.delta_pre = delta])
    /\ UNCHANGED << sf, params, heap, dx, x_trial, f_trial, avratio, calls, faults, entry,
                    stage >>

\* mutant: the callback's status is replaced by the generic failure
EvalFailureStatus_Generic(err) == GSL_FAILURE
\* "status = gsl_multilarge_nlinear_eval_f(...); if (status) return status"
EvalFailureStatus(err) == err

\* trs->step succeeds with step d (storing ratio av), the user residual
\* fails at x + d with status err: returned at once
LoopEvalFailed(d, av, err) ==
    /\ pc = "loop"
    /\ MayAttempt
    /\ attempts' = attempts + 1
    /\ steps' = steps + 1
    /\ preloops' = PreloopsAfterPass(preloops)
    /\ err # GSL_SUCCESS
    /\ faults' = faults + 1
    /\ dx' = d
    /\ avratio' = av
    /\ x_trial' = trust_trial_step(x, d)
    /\ att' = [NoAttempt EXCEPT !.kind = "eval_failed", !.delta_pre = delta]
    /\ ret' = EvalFailureStatus(err)
    /\ pc' = "ready"
    /\ UNCHANGED << sf, params, heap, x, f, g, JTJ, delta, mu, nu, diag, f_trial, rho,
                    foundstep, bad_steps, calls, entry, call_rejects,
                    run_rejects, all_minus_one, stage, since >>

\* mutant: trs->preduction is asked whether or not the residual decreased
PredOutcomes_Always(fv, ft) ==
    { << TRUE, GSL_FAILURE, Zero >> }
        \cup { << TRUE, GSL_SUCCESS, pr >> : pr \in PredSet }
\* what trs->preduction may answer in this pass: it is asked only when the
\* trial residual is smaller
PredOutcomes(fv, ft) ==
    IF NoDecrease(fv, ft) THEN { << FALSE, GSL_SUCCESS, Zero >> }
    ELSE { << TRUE, GSL_FAILURE, Zero >> }
         \cup { << TRUE, GSL_SUCCESS, pr >> : pr \in PredSet }

\* trs->step succeeds with step d (storing ratio av), the trial residual is
\* evaluated, trust_eval_step decides with the answer po of trs->preduction
LoopEvaluated(d, av, po, dfst) ==
    /\ pc = "loop"
    /\ MayAttempt
    /\ attempts' = attempts + 1
    /\ steps' = steps + 1
    /\ preloops' = PreloopsAfterPass(preloops)
    /\ dx' = d
    /\ avratio' = av
    /\ x_trial' = trust_trial_step(x, d)
    /\ f_trial' = UserF(x_trial')
    /\ po \in PredOutcomes(f, f_trial')
    /\ LET r == trust_calc_rho(f, f_trial', po[2], po[3])
           st == trust_eval_step(params, av, r)
           found == IF st = GSL_SUCCESS THEN 1 ELSE foundstep
       IN  /\ (found = 0 => dfst = GSL_SUCCESS)
           /\ faults' = faults + Failed(<< dfst >>)
           /\ UNCHANGED stage
           /\ LoopTail(r, found, x_trial', f_trial', dfst,
                       [kind |-> IF found = 0 THEN "rejected"
                                 ELSE IF dfst = GSL_SUCCESS THEN "accepted"
                                 ELSE "df_failed",
                        pcalled |-> po[1], pstat |-> po[2], pred |-> po[3],
                        delta_pre |-> delta])
    /\ UNCHANGED << sf, params, heap, calls, entry >>

Next ==
    \/ \E k \in 0 .. Len(AllocOrder(params)) : trust_alloc(k)
    \/ \E x0 \in X0Set, fst \in CallbackStatus, dfst \in CallbackStatus,
          tst \in CallbackStatus : trust_init(x0, fst, dfst, tst)
    \/ \E pst \in CallbackStatus : trust_iterate_enter(pst)
    \/ LoopStepFailed
    \/ \E d \in DxSet(params.trs), av \in AvratioSet(params.trs), err \in CallbackStatus :
          LoopEvalFailed(d, av, err)
    \/ \E d \in DxSet(params.trs), av \in AvratioSet(params.trs), dfst \in CallbackStatus :
          \E po \in PredOutcomes(f, UserF(trust_trial_step(x, d))) :
             LoopEvaluated(d, av, po, dfst)

Spec == Init /\ [][Next]_vars

(***************************************************************************)
(* specfunc/gamma.c: the factorial table and the functions that read it.   *)
(* A double is held exactly: an entry of the table up to 12! as the        *)
(* integer it is, a larger one as the literal of the source; log(v) as     *)
(* [ln |-> v], so that a difference of logarithms is the logarithm of the  *)
(* quotient and exp undoes log (exact real arithmetic, no rounding).       *)
(***************************************************************************)
GSL_EDOM == 1
GSL_EOVRFLW == 16
FACT_TABLE_MAX == 170

\* arguments tried: SfMargin below 0 up to SfMargin above the table for
\* the factorials, 0 .. MaxChooseN for n and m of the binomials
SfMargin == 2
MaxChooseN == 10
SfArgs == (0 - SfMargin) .. (FACT_TABLE_MAX + SfMargin)

\* a double is << op, kind, num, lit >>: op "val" for a plain value, "log"
\* for the logarithm of one, "lngamma" for log Gamma of one
\* a double that is the integer v, written lit in the source
Exact(v, lit) == << "val", "exact", << v, 1 >>, lit >>
\* a double too large to be held as a number: the literal of the source
Literal(lit) == << "val", "literal", Zero, lit >>
\* the double holding the rational q
Value(q) == << "val", "exact", q, "" >>
\* the number a double holds
Num(d) == d[3]

\* the fields of an entry { n, f, i } of the table
EntryN(e) == e[1]
EntryF(e) == e[2]

fact_table ==
    << << 0, Exact(1, "1.0"), 1 >>,
       << 1, Exact(1, "1.0"), 1 >>,
       << 2, Exact(2, "2.0"), 2 >>,
       << 3, Exact(6, "6.0"), 6 >>,
       << 4, Exact(24, "24.0"), 24 >>,
       << 5, Exact(120, "120.0"), 120 >>,
       << 6, Exact(720, "720.0"), 720 >>,
       << 7, Exact(5040, "5040.0"), 5040 >>,
       << 8, Exact(40320, "40320.0"), 40320 >>,
       << 9, Exact(362880, "362880.0"), 362880 >>,
       << 10, Exact(3628800, "3628800.0"), 3628800 >>,
       << 11, Exact(39916800, "39916800.0"), 39916800 >>,
       << 12, Exact(479001600, "479001600.0"), 479001600 >>,
       << 13, Literal("6227020800.0"), 0 >>,
       << 14, Literal("87178291200.0"), 0 >>,
       << 15, Literal("1307674368000.0"), 0 >>,
       << 16, Literal("20922789888000.0"), 0 >>,
       << 17, Literal("355687428096000.0"), 0 >>,
       << 18, Literal("6402373705728000.0"), 0 >>,
       << 19, Literal("121645100408832000.0"), 0 >>,
       << 20, Literal("2432902008176640000.0"), 0 >>,
       << 21, Literal("51090942171709440000.0"), 0 >>,
       << 22, Literal("1124000727777607680000.0"), 0 >>,
       << 23, Literal("25852016738884976640000.0"), 0 >>,
       << 24, Literal("620448401733239439360000.0"), 0 >>,
       << 25, Literal("15511210043330985984000000.0"), 0 >>,
       << 26, Literal("403291461126605635584000000.0"), 0 >>,
       << 27, Literal("10888869450418352160768000000.0"), 0 >>,
       << 28, Literal("304888344611713860501504000000.0"), 0 >>,
       << 29, Literal("8841761993739701954543616000000.0"), 0 >>,
       << 30, Literal("265252859812191058636308480000000.0"), 0 >>,
       << 31, Literal("8222838654177922817725562880000000.0"), 0 >>,
       << 32, Literal("263130836933693530167218012160000000.0"), 0 >>,
       << 33, Literal("8683317618811886495518194401280000000.0"), 0 >>,
       << 34, Literal("2.95232799039604140847618609644e38"), 0 >>,
       << 35, Literal("1.03331479663861449296666513375e40"), 0 >>,
       << 36, Literal("3.71993326789901217467999448151e41"), 0 >>,
       << 37, Literal("1.37637530912263450463159795816e43"), 0 >>,
       << 38, Literal("5.23022617466601111760007224100e44"), 0 >>,
       << 39, Literal("2.03978820811974433586402817399e46"), 0 >>,
       << 40, Literal("8.15915283247897734345611269600e47"), 0 >>,
       << 41, Literal("3.34525266131638071081700620534e49"), 0 >>,
       << 42, Literal("1.40500611775287989854314260624e51"), 0 >>,
       << 43, Literal("6.04152630633738356373551320685e52"), 0 >>,
       << 44, Literal("2.65827157478844876804362581101e54"), 0 >>,
       << 45, Literal("1.19622220865480194561963161496e56"), 0 >>,
       << 46, Literal("5.50262215981208894985030542880e57"), 0 >>,
       << 47, Literal("2.58623241511168180642964355154e59"), 0 >>,
       << 48, Literal("1.24139155925360726708622890474e61"), 0 >>,
       << 49, Literal("6.08281864034267560872252163321e62"), 0 >>,
       << 50, Literal("3.04140932017133780436126081661e64"), 0 >>,
       << 51, Literal("1.55111875328738228022424301647e66"), 0 >>,
       << 52, Literal("8.06581751709438785716606368564e67"), 0 >>,
       << 53, Literal("4.27488328406002556429801375339e69"), 0 >>,
       << 54, Literal("2.30843697339241380472092742683e71"), 0 >>,
       << 55, Literal("1.26964033536582759259651008476e73"), 0 >>,
       << 56, Literal("7.10998587804863451854045647464e74"), 0 >>,
       << 57, Literal("4.05269195048772167556806019054e76"), 0 >>,
       << 58, Literal("2.35056133128287857182947491052e78"), 0 >>,
       << 59, Literal("1.38683118545689835737939019720e80"), 0 >>,
       << 60, Literal("8.32098711274139014427634118320e81"), 0 >>,
       << 61, Literal("5.07580213877224798800856812177e83"), 0 >>,
       << 62, Literal("3.14699732603879375256531223550e85"), 0 >>,
       << 63, Literal("1.982608315404440064116146708360e87"), 0 >>,
       << 64, Literal("1.268869321858841641034333893350e89"), 0 >>,
       << 65, Literal("8.247650592082470666723170306800e90"), 0 >>,
       << 66, Literal("5.443449390774430640037292402480e92"), 0 >>,
       << 67, Literal("3.647111091818868528824985909660e94"), 0 >>,
       << 68, Literal("2.480035542436830599600990418570e96"), 0 >>,
       << 69, Literal("1.711224524281413113724683388810e98"), 0 >>,
       << 70, Literal("1.197857166996989179607278372170e100"), 0 >>,
       << 71, Literal("8.504785885678623175211676442400e101"), 0 >>,
       << 72, Literal("6.123445837688608686152407038530e103"), 0 >>,
       << 73, Literal("4.470115461512684340891257138130e105"), 0 >>,
       << 74, Literal("3.307885441519386412259530282210e107"), 0 >>,
       << 75, Literal("2.480914081139539809194647711660e109"), 0 >>,
       << 76, Literal("1.885494701666050254987932260860e111"), 0 >>,
       << 77, Literal("1.451830920282858696340707840860e113"), 0 >>,
       << 78, Literal("1.132428117820629783145752115870e115"), 0 >>,
       << 79, Literal("8.946182130782975286851441715400e116"), 0 >>,
       << 80, Literal("7.156945704626380229481153372320e118"), 0 >>,
       << 81, Literal("5.797126020747367985879734231580e120"), 0 >>,
       << 82, Literal("4.753643337012841748421382069890e122"), 0 >>,
       << 83, Literal("3.945523969720658651189747118010e124"), 0 >>,
       << 84, Literal("3.314240134565353266999387579130e126"), 0 >>,
       << 85, Literal("2.817104114380550276949479442260e128"), 0 >>,
       << 86, Literal("2.422709538367273238176552320340e130"), 0 >>,
       << 87, Literal("2.107757298379527717213600518700e132"), 0 >>,
       << 88, Literal("1.854826422573984391147968456460e134"), 0 >>,
       << 89, Literal("1.650795516090846108121691926250e136"), 0 >>,
       << 90, Literal("1.485715964481761497309522733620e138"), 0 >>,
       << 91, Literal("1.352001527678402962551665687590e140"), 0 >>,
       << 92, Literal("1.243841405464130725547532432590e142"), 0 >>,
       << 93, Literal("1.156772507081641574759205162310e144"), 0 >>,
       << 94, Literal("1.087366156656743080273652852570e146"), 0 >>,
       << 95, Literal("1.032997848823905926259970209940e148"), 0 >>,
       << 96, Literal("9.916779348709496892095714015400e149"), 0 >>,
       << 97, Literal("9.619275968248211985332842594960e151"), 0 >>,
       << 98, Literal("9.426890448883247745626185743100e153"), 0 >>,
       << 99, Literal("9.332621544394415268169923885600e155"), 0 >>,
       << 100, Literal("9.33262154439441526816992388563e157"), 0 >>,
       << 101, Literal("9.42594775983835942085162312450e159"), 0 >>,
       << 102, Literal("9.61446671503512660926865558700e161"), 0 >>,
       << 103, Literal("9.90290071648618040754671525458e163"), 0 >>,
       << 104, Literal("1.02990167451456276238485838648e166"), 0 >>,
       << 105, Literal("1.08139675824029090050410130580e168"), 0 >>,
       << 106, Literal("1.146280563734708354534347384148e170"), 0 >>,
       << 107, Literal("1.226520203196137939351751701040e172"), 0 >>,
       << 108, Literal("1.324641819451828974499891837120e174"), 0 >>,
       << 109, Literal("1.443859583202493582204882102460e176"), 0 >>,
       << 110, Literal("1.588245541522742940425370312710e178"), 0 >>,
       << 111, Literal("1.762952551090244663872161047110e180"), 0 >>,
       << 112, Literal("1.974506857221074023536820372760e182"), 0 >>,
       << 113, Literal("2.231192748659813646596607021220e184"), 0 >>,
       << 114, Literal("2.543559733472187557120132004190e186"), 0 >>,
       << 115, Literal("2.925093693493015690688151804820e188"), 0 >>,
       << 116, Literal("3.393108684451898201198256093590e190"), 0 >>,
       << 117, Literal("3.96993716080872089540195962950e192"), 0 >>,
       << 118, Literal("4.68452584975429065657431236281e194"), 0 >>,
       << 119, Literal("5.57458576120760588132343171174e196"), 0 >>,
       << 120, Literal("6.68950291344912705758811805409e198"), 0 >>,
       << 121, Literal("8.09429852527344373968162284545e200"), 0 >>,
       << 122, Literal("9.87504420083360136241157987140e202"), 0 >>,
       << 123, Literal("1.21463043670253296757662432419e205"), 0 >>,
       << 124, Literal("1.50614174151114087979501416199e207"), 0 >>,
       << 125, Literal("1.88267717688892609974376770249e209"), 0 >>,
       << 126, Literal("2.37217324288004688567714730514e211"), 0 >>,
       << 127, Literal("3.01266001845765954480997707753e213"), 0 >>,
       << 128, Literal("3.85620482362580421735677065923e215"), 0 >>,
       << 129, Literal("4.97450422247728744039023415041e217"), 0 >>,
       << 130, Literal("6.46685548922047367250730439554e219"), 0 >>,
       << 131, Literal("8.47158069087882051098456875820e221"), 0 >>,
       << 132, Literal("1.11824865119600430744996307608e224"), 0 >>,
       << 133, Literal("1.48727070609068572890845089118e226"), 0 >>,
       << 134, Literal("1.99294274616151887673732419418e228"), 0 >>,
       << 135, Literal("2.69047270731805048359538766215e230"), 0 >>,
       << 136, Literal("3.65904288195254865768972722052e232"), 0 >>,
       << 137, Literal("5.01288874827499166103492629211e234"), 0 >>,
       << 138, Literal("6.91778647261948849222819828311e236"), 0 >>,
       << 139, Literal("9.61572319694108900419719561353e238"), 0 >>,
       << 140, Literal("1.34620124757175246058760738589e241"), 0 >>,
       << 141, Literal("1.89814375907617096942852641411e243"), 0 >>,
       << 142, Literal("2.69536413788816277658850750804e245"), 0 >>,
       << 143, Literal("3.85437071718007277052156573649e247"), 0 >>,
       << 144, Literal("5.55029383273930478955105466055e249"), 0 >>,
       << 145, Literal("8.04792605747199194484902925780e251"), 0 >>,
       << 146, Literal("1.17499720439091082394795827164e254"), 0 >>,
       << 147, Literal("1.72724589045463891120349865931e256"), 0 >>,
       << 148, Literal("2.55632391787286558858117801578e258"), 0 >>,
       << 149, Literal("3.80892263763056972698595524351e260"), 0 >>,
       << 150, Literal("5.71338395644585459047893286526e262"), 0 >>,
       << 151, Literal("8.62720977423324043162318862650e264"), 0 >>,
       << 152, Literal("1.31133588568345254560672467123e267"), 0 >>,
       << 153, Literal("2.00634390509568239477828874699e269"), 0 >>,
       << 154, Literal("3.08976961384735088795856467036e271"), 0 >>,
       << 155, Literal("4.78914290146339387633577523906e273"), 0 >>,
       << 156, Literal("7.47106292628289444708380937294e275"), 0 >>,
       << 157, Literal("1.17295687942641442819215807155e278"), 0 >>,
       << 158, Literal("1.85327186949373479654360975305e280"), 0 >>,
       << 159, Literal("2.94670227249503832650433950735e282"), 0 >>,
       << 160, Literal("4.71472363599206132240694321176e284"), 0 >>,
       << 161, Literal("7.59070505394721872907517857094e286"), 0 >>,
       << 162, Literal("1.22969421873944943411017892849e289"), 0 >>,
       << 163, Literal("2.00440157654530257759959165344e291"), 0 >>,
       << 164, Literal("3.28721858553429622726333031164e293"), 0 >>,
       << 165, Literal("5.42391066613158877498449501421e295"), 0 >>,
       << 166, Literal("9.00369170577843736647426172359e297"), 0 >>,
       << 167, Literal("1.50361651486499904020120170784e300"), 0 >>,
       << 168, Literal("2.52607574497319838753801886917e302"), 0 >>,
       << 169, Literal("4.26906800900470527493925188890e304"), 0 >>,
       << 170, Literal("7.25741561530799896739672821113e306"), 0 >> >>

\* fact_table[n] of the C array (indices from 0)
fact_table_at(n) == fact_table[n + 1]

\* mutant: the last entry of the table is not used
FactInTable_Exclusive(n) == n < FACT_TABLE_MAX
\* "else if(n <= FACT_TABLE_MAX)"
FactInTable(n) == n <= FACT_TABLE_MAX

\* log(d)
Log(d) == [d EXCEPT ![1] = "log"]
\* a - b of two logarithms of doubles held as numbers
LogSub(a, b) == << "log", "exact", RDiv(Num(a), Num(b)), "" >>
\* exp(l) of a logarithm l
Exp(l) == [l EXCEPT ![1] = "val"]
\* "ln_result < GSL_LOG_DBL_MAX": every quotient the arguments tried give
\* is below DBL_MAX
BelowLogDblMax(l) == Num(l)[1] \div Num(l)[2] < 2147483647

\* << status, *result >> of gsl_sf_fact_impl(n, result), old the content of
\* *result before the call
fact_impl(n, old) ==
    IF n < 0 THEN << GSL_EDOM, old >>
    ELSE IF FactInTable(n) THEN << GSL_SUCCESS, EntryF(fact_table_at(n)) >>
    ELSE << GSL_EOVRFLW, old >>

\* << status, *result >> of gsl_sf_lnfact_impl(n, result)
lnfact_impl(n, old) ==
    IF n < 0 THEN << GSL_EDOM, old >>
    ELSE IF FactInTable(n) THEN << GSL_SUCCESS, Log(EntryF(fact_table_at(n))) >>
    ELSE << GSL_SUCCESS, << "lngamma", "exact", << n + 1, 1 >>, "" >> >>

\* the local doubles nf, mf, nmmf before they are written
Uninitialized == Literal("uninitialized")

\* ln_result = nf - mf - nmmf of gsl_sf_lnchoose_impl and gsl_sf_choose_impl,
\* for m <= n: "if(m*2 > n) m = n-m", then the three gsl_sf_lnfact_impl
\* calls with n+1, m+1 and n-m+1
ln_choose(n, m) ==
    LET mm == IF m * 2 > n THEN n - m ELSE m
        nf == lnfact_impl(n + 1, Uninitialized)[2]
        mf == lnfact_impl(mm + 1, Uninitialized)[2]
        nmmf == lnfact_impl(n - mm + 1, Uninitialized)[2]
    IN  LogSub(LogSub(nf, mf), nmmf)

\* << status, *result >> of gsl_sf_lnchoose_impl(n, m, result)
lnchoose_impl(n, m, old) ==
    IF m > n THEN << GSL_EDOM, old >>
    ELSE << GSL_SUCCESS, ln_choose(n, m) >>

\* << status, *result >> of gsl_sf_choose_impl(n, m, result)
choose_impl(n, m, old) ==
    IF m > n THEN << GSL_EDOM, old >>
    ELSE IF BelowLogDblMax(ln_choose(n, m))
         THEN << GSL_SUCCESS, Exp(ln_choose(n, m)) >>
         ELSE << GSL_EOVRFLW, old >>

\* what the caller's double may hold before a call
CallerSlots == { Exact(0, "0.0"), Exact(7, "7.0") }

\* what a call leaves: sf.before is the caller's double before the call,
\* sf.result the same double after it
SfCall(fn, n, m, old, out) ==
    /\ sf' = [fn |-> fn, n |-> n, m |-> m, status |-> out[1],
              before |-> old, result |-> out[2]]
    /\ UNCHANGED trust_vars

gsl_sf_fact_impl(n, old) == SfCall("fact", n, 0, old, fact_impl(n, old))
gsl_sf_lnfact_impl(n, old) == SfCall("lnfact", n, 0, old, lnfact_impl(n, old))
gsl_sf_lnchoose_impl(n, m, old) ==
    SfCall("lnchoose", n, m, old, lnchoose_impl(n, m, old))
gsl_sf_choose_impl(n, m, old) ==
    SfCall("choose", n, m, old, choose_impl(n, m, old))

SfInit == Init /\ params.trs = "lm" /\ JTJ # NULL

SfNext ==
    \/ \E n \in SfArgs, old \in CallerSlots : gsl_sf_fact_impl(n, old)
    \/ \E n \in SfArgs, old \in CallerSlots : gsl_sf_lnfact_impl(n, old)
    \/ \E n \in 0 .. MaxChooseN, m \in 0 .. MaxChooseN, old \in CallerSlots :
          gsl_sf_lnchoose_impl(n, m, old)
    \/ \E n \in 0 .. MaxChooseN, m \in 0 .. MaxChooseN, old \in CallerSlots :
          gsl_sf_choose_impl(n, m, old)

SfSpec == SfInit /\ [][SfNext]_vars

(***************************************************************************)
(* Claims.                                                                 *)
(***************************************************************************)
\* the last trust_iterate call has returned
Returned == pc = "ready" /\ calls > 0
\* the last loop pass ended in the reject branch
LastRejected == att.kind \in { "step_failed", "rejected" }
\* the last loop pass evaluated the trial residual and decided on the step
LastDecided == att.kind \in { "rejected", "accepted", "df_failed" }
\* the last loop pass accepted its step
LastAccepted == att.kind \in { "accepted", "df_failed" }

C2_FifteenthRejectionReturns ==
    (calls > 0 /\ LastRejected /\ call_rejects = 15)
        => (Returned /\ ret = GSL_ENOPROG)

\* C3: x and f are overwritten only when a trial step is accepted: as long
\* as no step of the current call has been accepted (during the rejected
\* passes, and when the call returns GSL_ENOPROG) they are the values the
\* call was entered with.
C3_OnlyAcceptanceOverwrites ==
    (calls > 0 /\ ~LastAccepted) => (x = entry.x /\ f = entry.f)

C3_Witness ==
    /\ Returned /\ ret = GSL_ENOPROG
    /\ att.kind = "rejected" /\ x_trial # x /\ f_trial # f
    /\ x = entry.x /\ f = entry.f

\* C4: when trust_iterate returns GSL_SUCCESS the norm of f is strictly
\* smaller than it was on entry, and a trial step whose residual norm
\* equals the current one is not accepted.
C4_SuccessStrictlyReduces ==
    /\ (Returned /\ ret = GSL_SUCCESS) => Nrm2Sq(f) < Nrm2Sq(entry.f)
    /\ (calls > 0 /\ LastDecided /\ Nrm2Sq(f_trial) = Nrm2Sq(entry.f))
           => att.kind = "rejected"

C4_Witness ==
    /\ Returned /\ ret = GSL_SUCCESS /\ att.kind = "accepted"
    /\ Nrm2Sq(f) < Nrm2Sq(entry.f)
    /\ call_rejects > 0

\* C5: a trial step whose TRS step succeeded is accepted if and only if
\* rho > 0 and the lmaccel gate does not veto it, where rho is -1 when
\* norm(f_trial) >= norm(f), when trs->preduction fails or when the
\* predicted reduction is <= 0, and (1 - (norm(f_trial)/norm(f))^2) /
\* pred_reduction otherwise; rho = 0 is a rejection.
C5_ClaimedRho ==
    LET n2 == Nrm2Sq(entry.f)
        nt2 == Nrm2Sq(f_trial)
    IN  IF nt2 >= n2 \/ att.pstat # GSL_SUCCESS \/ att.pred[1] <= 0
        THEN << -1, 1 >>
        ELSE RDiv(RSub(<< 1, 1 >>, Rat(nt2, n2)), att.pred)

C5_AcceptedIffRhoPositive ==
    (calls > 0 /\ LastDecided) =>
        /\ rho = C5_ClaimedRho
        /\ LastAccepted <=>
               (rho[1] > 0
                /\ ~(params.trs = "lmaccel" /\ RLess(params.avmax, avratio)))
        /\ rho[1] = 0 => att.kind = "rejected"

C5_Witness ==
    /\ calls > 0 /\ att.kind = "accepted" /\ att.pcalled
    /\ rho = << 9, 10 >> /\ rho = C5_ClaimedRho

\* C6: every loop pass that reaches the radius update (step accepted, step
\* rejected, or TRS step failed with rho = -1) changes delta by this rule:
\* rho > 0.75 multiplies it by factor_up, rho < 0.25 divides it by
\* factor_down, 0.25 <= rho <= 0.75 leaves it; delta = 1, rho = 0.9,
\* factor_up = 2 gives 2, and delta = 1, rho = 0.1, factor_down = 3 gives 1/3.
C6_ClaimedRadius(d, r) ==
    IF r[1] * 4 > 3 * r[2] THEN RMul(d, params.factor_up)
    ELSE IF r[1] * 4 < r[2] THEN RDiv(d, params.factor_down)
    ELSE d

C6_Defaults == [factor_up |-> << 2, 1 >>, factor_down |-> << 3, 1 >>]

C6_RadiusRule ==
    /\ (calls > 0 /\ (LastRejected \/ LastAccepted)) =>
           delta = C6_ClaimedRadius(att.delta_pre, rho)
    /\ (calls > 0 /\ att.kind = "step_failed") => rho = << -1, 1 >>
    /\ radius_update(<< 1, 1 >>, << 9, 10 >>, C6_Defaults) = << 2, 1 >>
    /\ radius_update(<< 1, 1 >>, << 1, 10 >>, C6_Defaults) = << 1, 3 >>

C6_Witness ==
    /\ calls > 0 /\ att.kind = "accepted" /\ rho = << 9, 10 >>
    /\ params.factor_up = << 2, 1 >>
    /\ delta = RMul(att.delta_pre, << 2, 1 >>)

\* C7: a trial step with rho > 0 is rejected if and only if the TRS variant
\* is lmaccel and avratio > avmax; under lmaccel with avratio <= avmax, and
\* under every other variant whatever avratio is, it is accepted.
C7_VetoOnlyUnderLmaccel ==
    (calls > 0 /\ LastDecided /\ rho[1] > 0) =>
        (att.kind = "rejected" <=>
             (params.trs = "lmaccel" /\ RLess(params.avmax, avratio)))

C7_Witness ==
    /\ calls > 0 /\ att.kind = "rejected" /\ rho = << 9, 10 >>
    /\ params.trs = "lmaccel" /\ params.avmax = << 1, 2 >>
    /\ avratio = << 7, 10 >>

RECURSIVE DivTimes(_, _, _)
\* d divided k times by fd
DivTimes(d, fd, k) == IF k = 0 THEN d ELSE DivTimes(RDiv(d, fd), fd, k - 1)

\* C8 (as claimed): when every pass of a call was rejected with rho = -1,
\* at the return of GSL_ENOPROG x is the entry x and delta is the entry
\* delta divided by factor_down exactly 15 times.
C8_FifteenDivisions ==
    (Returned /\ ret = GSL_ENOPROG /\ all_minus_one) =>
        /\ x = entry.x
        /\ delta = DivTimes(entry.delta, params.factor_down, 15)

\* C9 (as claimed): at every point of every call the bad-step counter is
\* the number of consecutive rejected trial steps since the most recent
\* accepted step (or since init), across calls.
C9_CountsSinceAcceptance ==
    pc = "loop" => bad_steps = run_rejects

\* C9 (amended): the bad-step counter is the number of trial steps rejected
\* so far in the current trust_iterate call: every call starts it at 0, a
\* rejection adds one, and it is 0 right after an acceptance.
C9_CountsRejectionsOfCall ==
    calls > 0 =>
        /\ att.kind = "accepted" => bad_steps = 0
        /\ att.kind # "accepted" => bad_steps = call_rejects
        /\ att.kind = "none" => bad_steps = 0

C9_Witness ==
    /\ pc = "loop" /\ calls = 2 /\ LastRejected
    /\ bad_steps = 1 /\ call_rejects = 1 /\ run_rejects = 17

\* C10: after a successful trust_init and after every trust_iterate call,
\* whatever it returned, delta > 0 (given factor_up > 0, factor_down > 0).
C10_RadiusPositive ==
    (pc \in { "ready", "loop" }
     /\ params.factor_up[1] > 0 /\ params.factor_down[1] > 0)
        => delta[1] > 0

C10_Witness ==
    /\ Returned /\ ret = GSL_ENOPROG
    /\ delta[1] > 0 /\ RLess(delta, entry.delta)

\* whether the long n holds one of 2, 4, 8, ...
LongIsPowerOfTwoFrom2(n) ==
    /\ ~LongNegative(n)
    /\ Cardinality({ i \in 1 .. LONG_LIMBS : n[i] # 0 }) = 1
    /\ \A i \in 1 .. LONG_LIMBS :
          n[i] # 0 => (2 ^ TrailingZeros(n[i]) = n[i] /\ << i, n[i] >> # << 1, 1 >>)

\* C11 (as claimed): after init and after any sequence of trust_iterate
\* calls, also calls repeated after GSL_ENOPROG, mu >= 0 and the long nu is
\* a power of two >= 2.
C11_DampingInRange ==
    pc = "ready" => (mu.m[1] >= 0 /\ LongIsPowerOfTwoFrom2(nu))

\* C12: under the Levenberg scaling policy every D_i is non-decreasing over
\* the run: a pass that does not accept its step leaves D untouched, and
\* the update after an accepted step yields D_i_new >= D_i_old.
C12_LevenbergNonDecreasing ==
    [][(params.scale = "levenberg" /\ pc # "alloc") =>
          /\ \A i \in 1 .. Len(diag) : diag'[i] >= diag[i]
          /\ att'.kind # "accepted" => diag' = diag]_vars

C12_Witness ==
    /\ params.scale = "levenberg" /\ calls > 0 /\ att.kind = "accepted"
    /\ JTJ # NULL /\ Sqrt(JTJ[2]) < diag[2] /\ diag = << 1, 2 >>

\* C13 (as claimed): for each scaling policy, when diag(JTJ)_i > 0 for all
\* i at the first evaluation, D_i > 0 for all i after init and after every
\* iteration, also when a later accepted iterate has diag(JTJ)_i = 0.
C13_ScalingPositive ==
    (pc \in { "ready", "loop" }
     /\ \A x0 \in X0Set : \A i \in 1 .. Len(x0) : UserJTJ(x0)[i] > 0)
        => \A i \in 1 .. Len(diag) : diag[i] > 0

\* C14 (as claimed): when trust_init reports an error, f, g, JTJ, D,
\* delta, mu and nu keep the values they had before the call.
C14_InitErrorMutatesNothing ==
    [][(pc = "alloc" /\ ret' # GSL_SUCCESS) =>
          UNCHANGED << f, g, JTJ, diag, delta, mu, nu >>]_vars

\* C14 (amended): when trust_init reports an error, what it wrote before
\* the failing step stays written: a failing evaluation of f leaves g, JTJ,
\* D, delta, mu, nu as they were; a failing evaluation of g and JTJ leaves
\* f holding f(x0) and D, delta, mu, nu as they were; a failing TRS init
\* leaves f, g, JTJ, D, delta, mu, nu holding their initialised values.
C14_InitErrorKeepsWhatWasWritten ==
    [][(pc = "alloc" /\ ret' # GSL_SUCCESS) =>
          /\ stage' \in { "eval_f", "eval_df", "trs_init" }
          /\ stage' = "eval_f" =>
                 UNCHANGED << g, JTJ, diag, delta, mu, nu >>
          /\ stage' = "eval_df" =>
                 f' = UserF(x') /\ UNCHANGED << diag, delta, mu, nu >>
          /\ stage' = "trs_init" =>
                 /\ f' = UserF(x') /\ g' = UserG(x') /\ JTJ' = EvalJTJ(JTJ, x')
                 /\ \A i \in 1 .. Len(diag') : diag'[i] > 0
                 /\ RLeq(<< 3, 10 >>, delta')
                 /\ mu'.m[1] > 0 /\ nu' = Long(2)]_vars

C14_Witness ==
    /\ pc = "alloc" /\ ret # GSL_SUCCESS /\ stage = "trs_init"
    /\ f = UserF(x) /\ g = UserG(x) /\ delta[1] > 0 /\ nu = Long(2)

\* C15: when the user residual callback fails at a trial point,
\* trust_iterate returns the callback's status, unchanged and at once; the
\* failing pass modifies none of x, f, delta, mu, nu, and the failure is not
\* counted as a rejected step nor retried.
C15_EvalFailureReturnedVerbatim ==
    [][(pc = "loop" /\ att'.kind = "eval_failed") =>
          /\ ret' = GSL_EBADFUNC /\ pc' = "ready"
          /\ UNCHANGED << x, f, delta, mu, nu >>
          /\ UNCHANGED << bad_steps, call_rejects, run_rejects >>]_vars

C15_Witness ==
    /\ Returned /\ att.kind = "eval_failed" /\ ret = GSL_EBADFUNC
    /\ x_trial # x /\ x = entry.x /\ call_rejects > 0

\* C16: a pass whose trs->step fails is a rejection with rho = -1: the trial
\* residual is not evaluated and trs->preduction is not asked, delta is
\* divided by factor_down, the damping reject is applied, bad_steps is
\* incremented, and the call goes on with the loop unless bad_steps > 15,
\* when it returns GSL_ENOPROG; the status of trs->step is never returned.
C16_StepFailureIsRejection ==
    [][(pc = "loop" /\ att'.kind = "step_failed") =>
          /\ rho' = << -1, 1 >>
          /\ UNCHANGED << x, f, x_trial, f_trial >> /\ ~att'.pcalled
          /\ delta' = RDiv(delta, params.factor_down)
          /\ mu' = TimesLong(mu, nu) /\ nu' = LongTimes2(nu)
          /\ bad_steps' = bad_steps + 1
          /\ IF bad_steps' > 15
             THEN pc' = "ready" /\ ret' = GSL_ENOPROG
             ELSE pc' = "loop" /\ ret' = ret]_vars

C16_Witness ==
    /\ pc = "loop" /\ att.kind = "step_failed" /\ rho = << -1, 1 >>
    /\ bad_steps = 3 /\ RLess(delta, entry.delta)

\* C17 (as claimed): the damping (mu, nu) update of an accepted step, like
\* its radius update, happens before x and f are overwritten: whenever a
\* pass has overwritten x and f, delta and nu already hold their updated
\* values (nu = 2 after an accepted step).
C17_UpdatesBeforeCommit ==
    (calls > 0 /\ LastAccepted /\ x = x_trial /\ f = f_trial) =>
        /\ delta = C6_ClaimedRadius(att.delta_pre, rho)
        /\ nu = Long(2)

\* C17 (amended): a pass runs in the order TRS step, trial residual
\* evaluation, predicted reduction and acceptance decision, radius update,
\* commit of x and f, evaluation of g and JTJ, scaling update, damping
\* update: a pass left at the failing trial evaluation has written dx and
\* x_trial but not delta; a pass left at the failing Jacobian evaluation has
\* updated delta and overwritten x and f but not updated mu, nu and D; a
\* completed accepted pass has done all of it.
C17_CommitBeforeDamping ==
    [][pc = "loop" =>
          /\ att'.kind = "eval_failed" =>
                 /\ x_trial' = trust_trial_step(x, dx')
                 /\ UNCHANGED << delta, x, f, mu, nu, diag >>
          /\ att'.kind = "df_failed" =>
                 /\ delta' = C6_ClaimedRadius(delta, rho')
                 /\ x' = x_trial' /\ f' = f_trial'
                 /\ UNCHANGED << mu, nu, diag, g, JTJ >>
          /\ att'.kind = "accepted" =>
                 /\ delta' = C6_ClaimedRadius(delta, rho')
                 /\ x' = x_trial' /\ f' = f_trial'
                 /\ g' = UserG(x') /\ JTJ' = EvalJTJ(JTJ, x')
                 /\ nu' = Long(2)]_vars

C17_Witness ==
    /\ Returned /\ att.kind = "df_failed" /\ ret = GSL_EBADFUNC
    /\ x = x_trial /\ x # entry.x /\ delta # att.delta_pre
    /\ call_rejects > 0 /\ nu # Long(2)

\* C18: what a pass does to delta is decided by rho, delta and the two
\* factors, not by the acceptance of the step: an accepted step with
\* 0.25 <= rho <= 0.75 leaves delta unchanged, an accepted step with
\* 0 < rho < 0.25 shrinks delta, and a step the lmaccel gate rejects with
\* rho > 0.75 enlarges delta.
C18_RadiusIgnoresAcceptance ==
    calls > 0 =>
        /\ (LastAccepted /\ RLeq(<< 1, 4 >>, rho) /\ RLeq(rho, << 3, 4 >>))
               => delta = att.delta_pre
        /\ (LastAccepted /\ rho[1] > 0 /\ RLess(rho, << 1, 4 >>))
               => (delta = RDiv(att.delta_pre, params.factor_down)
                   /\ RLess(delta, att.delta_pre))
        /\ (att.kind = "rejected" /\ RLess(<< 3, 4 >>, rho))
               => (delta = RMul(att.delta_pre, params.factor_up)
                   /\ RLess(att.delta_pre, delta))

C18_Witness ==
    /\ calls > 0 /\ att.kind = "rejected" /\ rho = << 9, 10 >>
    /\ params.trs = "lmaccel" /\ RLess(params.avmax, avratio)
    /\ delta = RMul(att.delta_pre, params.factor_up)

\* further cases of C18 that the model reaches
C18_WitnessShrinkOnAccept ==
    /\ calls > 0 /\ att.kind = "accepted" /\ rho = << 1, 10 >>
    /\ RLess(delta, att.delta_pre)

\* C19: when trust_iterate returns GSL_SUCCESS, dx is the step the TRS
\* proposed last, x is the entry x plus dx component-wise and f is the
\* residual at that x; the steps of earlier rejected passes add nothing.
C19_OutputIsEntryPlusStep ==
    (Returned /\ ret = GSL_SUCCESS) =>
        /\ \A i \in 1 .. Len(x) : x[i] = entry.x[i] + dx[i]
        /\ f = UserF(x)
        /\ x = x_trial /\ f = f_trial

C19_Witness ==
    /\ Returned /\ ret = GSL_SUCCESS /\ call_rejects > 1
    /\ dx = << 1, -1 >> /\ entry.x = << 0, 1 >> /\ x = << 1, 0 >>

\* C20: a successful trust_init evaluates f at x0, then g and JTJ, then
\* initialises D, the radius, the damping and the TRS in this order, and
\* leaves delta = 0.3 * max(1, norm(D .* x0)) with the D it has just
\* initialised, hence delta >= 0.3.
C20_ScaledNormSq == (diag[1] * x[1]) * (diag[1] * x[1])
                    + (diag[2] * x[2]) * (diag[2] * x[2])

C20_ClaimedRadius ==
    IF C20_ScaledNormSq > 1
    THEN delta[1] > 0
         /\ 100 * delta[1] * delta[1] = 9 * C20_ScaledNormSq * delta[2] * delta[2]
    ELSE delta = << 3, 10 >>

C20_InitOrderAndRadius ==
    /\ (pc = "ready" /\ calls = 0) =>
           /\ stage = "done" /\ ret = GSL_SUCCESS
           /\ f = UserF(x) /\ g = UserG(x) /\ JTJ = EvalJTJ(JTJ, x)
           /\ diag = (IF params.scale = "none" \/ JTJ = NULL THEN << 1, 1 >>
                      ELSE << 1, 2 >>)
           /\ C20_ClaimedRadius
           /\ delta[1] * 10 >= 3 * delta[2]
           /\ nu = Long(2) /\ mu.m[1] > 0
    /\ (pc = "alloc" /\ faults = 1 /\ stage = "eval_f") =>
           (f = ZeroVec /\ g = ZeroVec /\ diag = ZeroVec /\ delta = << 0, 1 >>)
    /\ (pc = "alloc" /\ faults = 1 /\ stage = "eval_df") =>
           (f = UserF(x) /\ diag = ZeroVec /\ delta = << 0, 1 >>
            /\ nu = Long(0))
    /\ (pc = "alloc" /\ faults = 1 /\ stage = "trs_init") =>
           (f = UserF(x) /\ g = UserG(x) /\ diag[1] > 0 /\ C20_ClaimedRadius
            /\ nu = Long(2))

C20_Witness ==
    /\ pc = "ready" /\ calls = 0 /\ stage = "done"
    /\ diag = << 1, 2 >> /\ delta = << 3, 5 >> /\ nu = Long(2)

\* C21: trs->preduction is not invoked in a pass whose trial residual has
\* norm(f_trial) >= norm(f), nor in a pass whose trs->step failed; it is
\* invoked (once, at its single call site) in every pass with a successful
\* step and norm(f_trial) < norm(f), also when the lmaccel gate vetoes the
\* step.
C21_PreductionOnlyOnDecrease ==
    calls > 0 =>
        /\ LastDecided =>
               (att.pcalled <=> Nrm2Sq(f_trial) < Nrm2Sq(entry.f))
        /\ att.kind \in { "step_failed", "eval_failed" } => ~att.pcalled

C21_Witness ==
    /\ calls > 0 /\ att.kind = "rejected" /\ att.pcalled
    /\ params.trs = "lmaccel" /\ RLess(params.avmax, avratio)
    /\ rho[1] > 0 /\ Nrm2Sq(f_trial) < Nrm2Sq(entry.f)

\* C22: trs->preloop is invoked exactly once per trust_iterate call, before
\* the first trs->step of the call, and not again for the passes that
\* follow rejected steps in the same call.
C22_PreloopOncePerCall ==
    /\ calls = 0 => (preloops = 0 /\ steps = 0)
    /\ calls > 0 => preloops = 1
    /\ (calls > 0 /\ att.kind = "none") => steps = 0
    /\ (calls > 0 /\ att.kind # "none") => steps >= 1

C22_Witness ==
    /\ pc = "loop" /\ calls = 2 /\ steps = 5 /\ call_rejects = 5
    /\ preloops = 1

\* C23 (as claimed): on every accepted step the damping parameter is
\* decreased or kept, mu after the damping accept <= mu before it for every
\* rho > 0 a step can be accepted with, and nu is reset to 2.
C23_AcceptNeverRaisesMu ==
    [][(pc = "loop" /\ att'.kind = "accepted") =>
          /\ mu'.e = mu.e /\ RLeq(mu'.m, mu.m)
          /\ nu' = Long(2)]_vars

\* C24: a trust_iterate call makes at most 16 trs->step invocations and at
\* most 16 trial residual evaluations (each evaluation follows a trs->step
\* invocation of its own), and after the 16th pass it has returned; what it
\* returns is GSL_SUCCESS, GSL_ENOPROG or the status of a callback.
C24_Evaluated == { "rejected", "accepted", "df_failed", "eval_failed" }

C24_AtMostSixteenPasses ==
    /\ [](/\ steps <= 16
          /\ steps = 16 => pc # "loop"
          /\ Returned => ret \in { GSL_SUCCESS, GSL_ENOPROG, GSL_EBADFUNC })
    /\ [][(pc = "loop" /\ (att'.kind \in C24_Evaluated \/ f_trial' # f_trial))
             => steps' = steps + 1]_vars

C24_Witness ==
    /\ Returned /\ ret = GSL_ENOPROG /\ steps = 16
    /\ att.kind = "rejected" /\ calls = 2

\* C25: the rho that reaches the radius update and the acceptance decision
\* is either exactly -1 or strictly positive; so a rejected pass has rho = -1
\* unless it is an lmaccel veto, and a pass with rho = -1 divides Delta by
\* factor_down.
C25_Reached == { "step_failed", "rejected", "accepted", "df_failed" }

C25_RhoMinusOneOrPositive ==
    (calls > 0 /\ att.kind \in C25_Reached) =>
        /\ rho = MinusOne \/ RPos(rho)
        /\ LastRejected =>
              \/ rho = MinusOne
              \/ att.kind = "rejected" /\ AccelVeto(params, avratio)
        /\ rho = MinusOne =>
              /\ LastRejected
              /\ delta = RDiv(att.delta_pre, params.factor_down)

C25_Witness ==
    /\ calls > 0 /\ att.kind = "rejected" /\ att.pcalled
    /\ att.pstat = GSL_SUCCESS /\ att.pred = Zero
    /\ rho = MinusOne /\ ~AccelVeto(params, avratio)
    /\ RLess(delta, att.delta_pre)

\* whether the long n holds 2^j
LongIsTwoTo(n, j) ==
    /\ j <= 16 * LONG_LIMBS - 2
    /\ n = [i \in 1 .. LONG_LIMBS |->
                IF i = (j \div 16) + 1 THEN 2 ^ (j % 16) ELSE 0]
\* whether the damping parameter b is a times 2^j
MuIsTimesTwoTo(b, a, j) == b.m = a.m /\ b.e = a.e + j

\* C26 (as claimed): starting from nu = 2 (just after init or after an
\* acceptance), after any number k of consecutive rejected attempts
\* nu = 2^(k+1) and mu = mu_start * 2^(k(k+1)/2), and mu has not decreased.
C26_RejectionLadder ==
    pc \in { "ready", "loop" } =>
        LET k == since.k
        IN  /\ LongIsTwoTo(nu, k + 1)
            /\ MuIsTimesTwoTo(mu, since.mu, (k * (k + 1)) \div 2)
            /\ mu.m[1] >= 0

\* the ladder of C26 while 2^(k+1) fits a long
C26_LadderWithinLong ==
    (pc \in { "ready", "loop" } /\ since.k <= 16 * LONG_LIMBS - 3) =>
        /\ LongIsTwoTo(nu, since.k + 1)
        /\ MuIsTimesTwoTo(mu, since.mu, (since.k * (since.k + 1)) \div 2)
        /\ mu.m[1] >= 0

\* C27: when the Jacobian evaluation after an accepted step fails,
\* trust_iterate returns that status with x and f holding the trial point
\* and its residual and Delta updated from rho, while D, mu, nu (and g, JTJ
\* and the bad-step counter) are what they were before the pass.
C27_FailedRefreshKeepsDamping ==
    [][att'.kind = "df_failed" =>
          /\ pc = "loop" /\ pc' = "ready" /\ ret' = GSL_EBADFUNC
          /\ x' = trust_trial_step(x, dx') /\ f' = UserF(x')
          /\ delta' = radius_update(delta, rho', params)
          /\ diag' = diag /\ mu' = mu /\ nu' = nu
          /\ g' = g /\ JTJ' = JTJ /\ bad_steps' = bad_steps]_vars

C27_Witness ==
    /\ Returned /\ att.kind = "df_failed" /\ ret = GSL_EBADFUNC
    /\ since.k > 0 /\ nu = Long(2 ^ (since.k + 1))
    /\ x # entry.x /\ f = f_trial /\ RLess(att.delta_pre, delta)

\* C28 (as claimed): when an allocation inside trust_alloc fails, trust_alloc
\* returns NULL and has released every buffer it had allocated in that
\* call: a failed construction owns no memory.
C28_FailedAllocOwnsNothing ==
    pc = "null" => heap = { }

\* C29: gsl_sf_fact_impl returns GSL_EDOM for n < 0 and GSL_EOVRFLW for
\* n > 170 and leaves *result as it was in both cases; for 0 <= n <= 170 it
\* returns GSL_SUCCESS and *result is the f of the table entry whose n
\* field is n.
C29_FactDomainAndTable ==
    sf.fn = "fact" =>
        /\ sf.n < 0 => (sf.status = GSL_EDOM /\ sf.result = sf.before)
        /\ sf.n > 170 => (sf.status = GSL_EOVRFLW /\ sf.result = sf.before)
        /\ (0 <= sf.n /\ sf.n <= 170) =>
              /\ sf.status = GSL_SUCCESS
              /\ \E j \in 1 .. Len(fact_table) :
                    EntryN(fact_table[j]) = sf.n /\ sf.result = EntryF(fact_table[j])
              /\ Cardinality({ j \in 1 .. Len(fact_table) :
                                 EntryN(fact_table[j]) = sf.n }) = 1

C29_Witness ==
    /\ sf.fn = "fact" /\ sf.n = 170 /\ sf.status = GSL_SUCCESS
    /\ sf.before = Exact(7, "7.0")
    /\ sf.result = Literal("7.25741561530799896739672821113e306")

RECURSIVE Factorial(_)
Factorial(n) == IF n = 0 THEN 1 ELSE n * Factorial(n - 1)
\* the binomial coefficient n! / (m! (n-m)!)
Binomial(n, m) == Rat(Factorial(n), Factorial(m) * Factorial(n - m))

\* C30 (as claimed): for m <= n gsl_sf_choose_impl returns the binomial
\* coefficient n! / (m! (n-m)!) and gsl_sf_lnchoose_impl its logarithm
\* (so the result is the same for m and n-m); for m > n they return
\* GSL_EDOM.
C30_ChooseIsBinomial ==
    sf.fn \in { "choose", "lnchoose" } =>
        IF sf.m > sf.n THEN sf.status = GSL_EDOM
        ELSE /\ sf.status = GSL_SUCCESS
             /\ sf.fn = "choose" => sf.result = Value(Binomial(sf.n, sf.m))
             /\ sf.fn = "lnchoose" =>
                    sf.result = Log(Value(Binomial(sf.n, sf.m)))

\* what C30 has right: the domain error, and the symmetry under m -> n-m
C30_DomainAndSymmetry ==
    /\ sf.fn \in { "choose", "lnchoose" } =>
          (sf.status = GSL_EDOM <=> sf.m > sf.n)
    /\ (sf.fn = "choose" /\ sf.m <= sf.n) =>
          sf.result = choose_impl(sf.n, sf.n - sf.m, sf.result)[2]
    /\ (sf.fn = "lnchoose" /\ sf.m <= sf.n) =>
          sf.result = lnchoose_impl(sf.n, sf.n - sf.m, sf.result)[2]

\* C31: when the driver is run without a materialised JTJ (JTJ == NULL),
\* trust_init sets D to all ones and no later pass of trust_iterate changes
\* it, under every scaling policy.
C31_NullJTJKeepsOnes ==
    /\ (JTJ = NULL /\ stage \in { "trs_init", "done" }) => diag = << 1, 1 >>
    /\ (JTJ = NULL /\ pc \in { "ready", "loop" }) => stage = "done"

C31_Witness ==
    /\ JTJ = NULL /\ params.scale = "levenberg"
    /\ Returned /\ att.kind = "accepted" /\ x # entry.x
    /\ diag = << 1, 1 >>
    /\ scale_update(params.scale, UserJTJ(entry.x), diag) # diag

====
